---- MODULE Spec2Model ----
(***************************************************************************)
(* On-demand image-variant service: the variant resolver (ImageService),   *)
(* the job queue (addImageVariantJob / BullMQ options) and the resize      *)
(* worker (processImageVariant and its 'failed' hook), over the metadata   *)
(* store collection image_variants and the object store.                   *)
(* Every await that touches the metadata store, the object store or the    *)
(* queue is one atomic step; steps of different calls, job attempts and    *)
(* hook executions interleave freely.                                      *)
(***************************************************************************)
EXTENDS Integers, Sequences, FiniteSets, TLC

\* ---------------------------------------------------------------- bounds
NumCallers == 2
MaxJobs == 2
MaxStalls == 1
MaxFaults == 1
MaxCalls == 2

\* ------------------------------------------------------ program constants
JobAttempts == 3
MAX_REQUEUES == 2
maxStalledCount == 2

Null == "null"
NoId == 0

Callers == 1..NumCallers

\* ------------------------------------------------------------------ keys
\* Strings that are built or taken apart by the code are sequences of
\* one-character strings.
Dot == "."

RECURSIVE lastIndexOf(_, _, _)
\* String.prototype.lastIndexOf, 1-based; 0 stands for -1
lastIndexOf(s, ch, i) ==
  IF i = 0 THEN 0
  ELSE IF s[i] = ch THEN i
  ELSE lastIndexOf(s, ch, i - 1)

Digit(d) ==
  CASE d = 0 -> "0" [] d = 1 -> "1" [] d = 2 -> "2" [] d = 3 -> "3"
    [] d = 4 -> "4" [] d = 5 -> "5" [] d = 6 -> "6" [] d = 7 -> "7"
    [] d = 8 -> "8" [] d = 9 -> "9"

RECURSIVE ToDecimal(_)
\* template-literal formatting of a positive integer
ToDecimal(n) ==
  IF n < 10 THEN <<Digit(n)>>
  ELSE ToDecimal(n \div 10) \o <<Digit(n % 10)>>

FormatChars(f) ==
  CASE f = "png" -> <<"p", "n", "g">>
    [] f = "jpeg" -> <<"j", "p", "e", "g">>
    [] f = "jpg" -> <<"j", "p", "g">>
    [] f = "webp" -> <<"w", "e", "b", "p">>

getOriginalKey(imageId) == imageId

getVariantKey(imageId, width, height, format) ==
  LET dotIndex == lastIndexOf(imageId, Dot, Len(imageId))
      name == SubSeq(imageId, 1, dotIndex - 1)
  IN name \o <<"_", "_", "_">> \o ToDecimal(width) \o <<"x">>
          \o ToDecimal(height) \o <<Dot>> \o FormatChars(format)

\* the variant key of the quadruple a call is about
KeyOf(q) == getVariantKey(q.imageId, q.width, q.height, q.imageFormat)

\* The requests of the model: one image and one rendition of it.
PicId == <<"a", Dot, "p", "n", "g">>
ImageIds == {PicId}
Quads == {[imageId |-> PicId, width |-> 20, height |-> 10, imageFormat |-> "webp"]}

\* ----------------------------------------------------------------- state
VARIABLES
  records,   \* metadata store: the documents of image_variants
  objects,   \* object store: the keys that hold an object
  jobs,      \* queue: every job ever added, in order of addition
  attempts,  \* running executions of processImageVariant
  hooks,     \* running executions of the worker's 'failed' listener
  rs,        \* per caller: the ImageService call in progress and its result
  nextId,    \* next fresh document _id
  budget,    \* jobs, stall re-dispatches, render failures and further
             \* requests of one client still allowed
  proc,      \* the worker process: pulling jobs or closing, the shutdown
             \* sequences under way, the process events so far, the exit
  late       \* the operations a pipeline step gave up waiting for, which
             \* the store they were sent to has not carried out yet

vars == <<records, objects, jobs, attempts, hooks, rs, nextId, budget, proc, late>>

\* ------------------------------------------------------- metadata store
QuadOf(r) == [imageId |-> r.imageId, width |-> r.width, height |-> r.height,
              imageFormat |-> r.imageFormat]

\* ImageVariants.findOne({imageId, width, height, imageFormat}); NoId: null
findOne(q) ==
  IF \E r \in records : QuadOf(r) = q
  THEN (CHOOSE r \in records : QuadOf(r) = q).id
  ELSE NoId

findById(id) == {r \in records : r.id = id}

DuplicateKeyOff(q) == FALSE

\* the unique index {imageId, width, height, imageFormat}
DuplicateKey(q) == \E r \in records : QuadOf(r) = q

\* enum ImageFormats, the values the schema admits for imageFormat
ImageFormats == {"png", "jpeg", "webp"}

\* the schema validation run by ImageVariants.create
ValidDoc(q) == q.imageFormat \in ImageFormats /\ q.width >= 1 /\ q.height >= 1

NewDocSized(id, q) ==
  [id |-> id, imageId |-> q.imageId, width |-> q.width, height |-> q.height,
   imageFormat |-> q.imageFormat,
   s3Key |-> getVariantKey(q.imageId, q.width, q.height, q.imageFormat),
   originalS3Key |-> getOriginalKey(q.imageId),
   status |-> "queued", fileSize |-> q.width * q.height,
   failedReason |-> Null, failedAt |-> Null, requeueCount |-> 0]

NewDocTransposed(id, q) ==
  [id |-> id, imageId |-> q.imageId, width |-> q.width, height |-> q.height,
   imageFormat |-> q.imageFormat,
   s3Key |-> getVariantKey(q.imageId, q.height, q.width, q.imageFormat),
   originalS3Key |-> getOriginalKey(q.imageId),
   status |-> "queued", fileSize |-> 0,
   failedReason |-> Null, failedAt |-> Null, requeueCount |-> 0]

\* ImageVariants.create(...) with the schema defaults
NewDoc(id, q) ==
  [id |-> id, imageId |-> q.imageId, width |-> q.width, height |-> q.height,
   imageFormat |-> q.imageFormat,
   s3Key |-> getVariantKey(q.imageId, q.width, q.height, q.imageFormat),
   originalS3Key |-> getOriginalKey(q.imageId),
   status |-> "queued", fileSize |-> 0,
   failedReason |-> Null, failedAt |-> Null, requeueCount |-> 0]


\* ---------------------------------------------------------------- queue
LiveStates == {"waiting", "active"}

NewJob(q, recId, by) ==
  [recId |-> recId, quad |-> q,
   originalS3Key |-> getOriginalKey(q.imageId),
   variantS3Key |-> getVariantKey(q.imageId, q.width, q.height, q.imageFormat),
   state |-> "waiting", attemptsMade |-> 0, stalled |-> 0, by |-> by]

JobIds == 1..Len(jobs)

\* every job position, attempt and hook execution the budgets allow
JobSlots ==
  1..(IF MaxJobs > MAX_REQUEUES + 2 THEN MaxJobs ELSE MAX_REQUEUES + 2)

\* a new execution of processImageVariant for job j: it holds the job's
\* lock, no step is timed yet, no error caught
Att(j) == [job |-> j, lock |-> TRUE, pc |-> "check", err |-> Null, timings |-> <<>>]

\* a new execution of the 'failed' listener for job j with
\* job.attemptsMade = n and the error err
Hk(j, n, err) == [job |-> j, attemptsMade |-> n, pc |-> "annotate", err |-> err]

AttemptCounts == 0..JobAttempts

\* --------------------------------------------------------------- callers
NoQuad == [imageId |-> <<>>, width |-> 0, height |-> 0, imageFormat |-> "any"]

Idle == [pc |-> "new", op |-> Null, quad |-> NoQuad, found |-> NoId,
         keys |-> {}, cold |-> FALSE, seen |-> Null, res |-> Null, key |-> <<>>]

\* the worker process as started: pulling jobs, no shutdown under way, its
\* connections open
NoExit == [code |-> -1, signal |-> Null]

Running == [pulling |-> TRUE, seqs |-> {}, events |-> {}, closed |-> {},
            exit |-> NoExit]

Start(objs, b) ==
  /\ proc = Running
  /\ late = {}
  /\ records = {}
  /\ objects = objs
  /\ jobs = <<>>
  /\ attempts = {}
  /\ hooks = {}
  /\ rs = [c \in Callers |-> Idle]
  /\ nextId = 1
  /\ budget = b

\* The service starts with an empty collection and an empty queue; the
\* original asset is in the bucket or not.
Init ==
  \E objs \in {{getOriginalKey(PicId)}, {}} :
    Start(objs, [jobs |-> MaxJobs, stalls |-> 0, faults |-> MaxFaults, calls |-> 0])

\* Each caller makes one call; callers are interchangeable and start in order.
CanStart(c) ==
  /\ rs[c].pc = "new"
  /\ \A d \in Callers : d < c => rs[d].pc # "new"

Return(c, res, key) ==
  rs' = [rs EXCEPT ![c] = [Idle EXCEPT !.pc = "done", !.res = res, !.key = key,
                                       !.cold = rs[c].cold]]

\* the status of the record of quadruple q, "absent" when there is none
StatusOf(q) ==
  IF \E r \in records : QuadOf(r) = q
  THEN (CHOOSE r \in records : QuadOf(r) = q).status
  ELSE "absent"

\* getOrCreateVariant(imageId, width, height, format, forceResize) is called;
\* seen remembers the status of the record at the time of the call
StartResolve(c, q, forceResize) ==
  /\ CanStart(c)
  /\ rs' = [rs EXCEPT ![c] = [Idle EXCEPT
               !.pc = IF forceResize THEN "fr_find" ELSE "find",
               !.op = IF forceResize THEN "force" ELSE "resolve",
               !.quad = q, !.seen = StatusOf(q)]]
  /\ UNCHANGED <<records, objects, jobs, attempts, hooks, nextId, budget, proc, late>>

\* handleForceResize: findOne
ForceFind(c) ==
  /\ rs[c].pc = "fr_find"
  /\ LET id == findOne(rs[c].quad) IN
       rs' = [rs EXCEPT ![c] = [@ EXCEPT
                !.found = id,
                !.pc = IF id = NoId THEN "find" ELSE "fr_delrec"]]
  /\ UNCHANGED <<records, objects, jobs, attempts, hooks, nextId, budget, proc, late>>

\* handleForceResize: deleteOne({_id})
ForceDeleteRecord(c) ==
  /\ rs[c].pc = "fr_delrec"
  /\ records' = {r \in records : r.id # rs[c].found}
  /\ rs' = [rs EXCEPT ![c] = [@ EXCEPT !.pc = "fr_delobj"]]
  /\ UNCHANGED <<objects, jobs, attempts, hooks, nextId, budget, proc, late>>

\* handleForceResize: S3Service.deleteObject(existingVariant.s3Key)
ForceDeleteObject(c) ==
  /\ rs[c].pc = "fr_delobj"
  /\ LET q == rs[c].quad IN
       objects' = objects \ {getVariantKey(q.imageId, q.width, q.height, q.imageFormat)}
  /\ rs' = [rs EXCEPT ![c] = [@ EXCEPT !.pc = "find", !.found = NoId]]
  /\ UNCHANGED <<records, jobs, attempts, hooks, nextId, budget, proc, late>>

\* handleForceResize: deleteOne rejects; the catch blocks of
\* handleForceResize and getOrCreateVariant log and rethrow
ForceDeleteRecordFails(c) ==
  /\ rs[c].pc = "fr_delrec"
  /\ Return(c, "error", <<>>)
  /\ UNCHANGED <<records, objects, jobs, attempts, hooks, nextId, budget, proc, late>>

\* handleForceResize: S3Service.deleteObject throws 'S3 delete failed'; the
\* request may or may not have removed the object
ForceDeleteObjectFails(c, gone) ==
  /\ rs[c].pc = "fr_delobj"
  /\ objects' = IF gone THEN objects \ {KeyOf(rs[c].quad)} ELSE objects
  /\ Return(c, "s3error", <<>>)
  /\ UNCHANGED <<records, jobs, attempts, hooks, nextId, budget, proc, late>>

FindAdmitsInFlight(c) ==
  /\ rs[c].pc = "find"
  /\ LET id == findOne(rs[c].quad) IN
       IF id = NoId
       THEN rs' = [rs EXCEPT ![c] = [@ EXCEPT !.pc = "head", !.cold = TRUE]]
       ELSE LET r == CHOOSE x \in records : x.id = id IN
            IF r.status = "ready"
            THEN Return(c, "variant", r.s3Key)
            ELSE rs' = [rs EXCEPT ![c] = [@ EXCEPT !.pc = "head"]]
  /\ UNCHANGED <<records, objects, jobs, attempts, hooks, nextId, budget, proc, late>>

\* getOrCreateVariant: findOne and the ready / queued / processing branches
Find(c) ==
  /\ rs[c].pc = "find"
  /\ LET id == findOne(rs[c].quad) IN
       IF id = NoId
       THEN rs' = [rs EXCEPT ![c] = [@ EXCEPT !.pc = "head", !.cold = TRUE]]
       ELSE LET r == CHOOSE x \in records : x.id = id IN
            CASE r.status = "ready" -> Return(c, "variant", r.s3Key)
              [] r.status \in {"queued", "processing"} ->
                   Return(c, "original", r.originalS3Key)
              [] OTHER -> rs' = [rs EXCEPT ![c] = [@ EXCEPT !.pc = "head"]]
  /\ UNCHANGED <<records, objects, jobs, attempts, hooks, nextId, budget, proc, late>>

HeadOriginalSkipped(c) ==
  /\ rs[c].pc = "head"
  /\ rs' = [rs EXCEPT ![c] = [@ EXCEPT !.pc = "create"]]
  /\ UNCHANGED <<records, objects, jobs, attempts, hooks, nextId, budget, proc, late>>

\* getOrCreateVariant: S3Service.exists(originalS3Key)
HeadOriginal(c) ==
  /\ rs[c].pc = "head"
  /\ IF getOriginalKey(rs[c].quad.imageId) \in objects
     THEN rs' = [rs EXCEPT ![c] = [@ EXCEPT !.pc = "create"]]
     ELSE Return(c, "notfound", <<>>)
  /\ UNCHANGED <<records, objects, jobs, attempts, hooks, nextId, budget, proc, late>>

CreateThenEnqueueAnyway(c) ==
  /\ rs[c].pc = "create"
  /\ IF DuplicateKey(rs[c].quad)
     THEN /\ rs' = [rs EXCEPT ![c] = [@ EXCEPT !.pc = "enqueue",
                                               !.found = findOne(rs[c].quad)]]
          /\ UNCHANGED <<records, nextId>>
     ELSE /\ records' = records \cup {NewDoc(nextId, rs[c].quad)}
          /\ nextId' = nextId + 1
          /\ rs' = [rs EXCEPT ![c] = [@ EXCEPT !.pc = "enqueue", !.found = nextId]]
  /\ UNCHANGED <<objects, jobs, attempts, hooks, budget, proc, late>>

\* getOrCreateVariant: ImageVariants.create; a validation error or a
\* duplicate-key error is logged and rethrown by the catch block
Create(c) ==
  /\ rs[c].pc = "create"
  /\ IF ~ValidDoc(rs[c].quad)
     THEN /\ Return(c, "validation", <<>>)
          /\ UNCHANGED <<records, nextId>>
     ELSE IF DuplicateKey(rs[c].quad)
     THEN /\ Return(c, "conflict", <<>>)
          /\ UNCHANGED <<records, nextId>>
     ELSE /\ records' = records \cup {NewDoc(nextId, rs[c].quad)}
          /\ nextId' = nextId + 1
          /\ rs' = [rs EXCEPT ![c] = [@ EXCEPT !.pc = "enqueue", !.found = nextId]]
  /\ UNCHANGED <<objects, jobs, attempts, hooks, budget, proc, late>>

\* getOrCreateVariant: addImageVariantJob succeeds
Enqueue(c) ==
  /\ rs[c].pc = "enqueue"
  /\ budget.jobs > 0
  /\ budget' = [budget EXCEPT !.jobs = @ - 1]
  /\ jobs' = Append(jobs, NewJob(rs[c].quad, rs[c].found, "resolver"))
  /\ Return(c, "original", getOriginalKey(rs[c].quad.imageId))
  /\ UNCHANGED <<records, objects, attempts, hooks, nextId, proc, late>>

\* getOrCreateVariant: addImageVariantJob rejects (broker unavailable); the
\* error is logged and rethrown
EnqueueFails(c) ==
  /\ rs[c].pc = "enqueue"
  /\ Return(c, "error", <<>>)
  /\ UNCHANGED <<records, objects, jobs, attempts, hooks, nextId, budget, proc, late>>

\* ------------------------------------------------------------ deleteImage
\* the filter {imageId, ...(width != null && {width}), ...}
Matches(r, sel) ==
  /\ r.imageId = sel.imageId
  /\ (sel.width # 0 => r.width = sel.width)
  /\ (sel.height # 0 => r.height = sel.height)
  /\ (sel.imageFormat # "any" => r.imageFormat = sel.imageFormat)

Selectors ==
  {[imageId |-> i, width |-> 0, height |-> 0, imageFormat |-> "any"] :
                i \in ImageIds}

\* deleteImage(imageId, width, height, format) is called
StartDelete(c, sel) ==
  /\ CanStart(c)
  /\ rs' = [rs EXCEPT ![c] = [Idle EXCEPT !.pc = "di_find", !.op = "delete",
                                          !.quad = sel]]
  /\ UNCHANGED <<records, objects, jobs, attempts, hooks, nextId, budget, proc, late>>

\* deleteImage: ImageVariants.find(filter); empty result throws
DeleteFind(c) ==
  /\ rs[c].pc = "di_find"
  /\ LET found == {r \in records : Matches(r, rs[c].quad)} IN
       IF found = {}
       THEN Return(c, "nomatch", <<>>)
       ELSE rs' = [rs EXCEPT ![c] = [@ EXCEPT !.pc = "di_delobjs",
                                              !.keys = {r.s3Key : r \in found}]]
  /\ UNCHANGED <<records, objects, jobs, attempts, hooks, nextId, budget, proc, late>>

\* deleteImage: S3Service.deleteObjects(s3Keys)
DeleteObjects(c) ==
  /\ rs[c].pc = "di_delobjs"
  /\ objects' = objects \ rs[c].keys
  /\ rs' = [rs EXCEPT ![c] = [@ EXCEPT !.pc = "di_delmany"]]
  /\ UNCHANGED <<records, jobs, attempts, hooks, nextId, budget, proc, late>>

DeleteObjectsFailsThenDeleteMany(c) ==
  /\ rs[c].pc = "di_delobjs"
  /\ rs' = [rs EXCEPT ![c] = [@ EXCEPT !.pc = "di_delmany"]]
  /\ UNCHANGED <<records, objects, jobs, attempts, hooks, nextId, budget, proc, late>>

\* deleteImage: S3Service.deleteObjects throws 'S3 delete failed' after the
\* request removed some, all or none of the objects; the catch block of
\* deleteImage logs and rethrows
DeleteObjectsFails(c) ==
  /\ rs[c].pc = "di_delobjs"
  /\ \E del \in SUBSET rs[c].keys : objects' = objects \ del
  /\ Return(c, "s3batcherror", <<>>)
  /\ UNCHANGED <<records, jobs, attempts, hooks, nextId, budget, proc, late>>

\* deleteImage: ImageVariants.deleteMany(filter)
DeleteMany(c) ==
  /\ rs[c].pc = "di_delmany"
  /\ records' = {r \in records : ~Matches(r, rs[c].quad)}
  /\ Return(c, "deleted", <<>>)
  /\ UNCHANGED <<objects, jobs, attempts, hooks, nextId, budget, proc, late>>

\* ------------------------------------------------------------ getOriginal
\* getOriginal(imageId) is called (the request gives no dimensions)
StartGetOriginal(c, imageId) ==
  /\ CanStart(c)
  /\ rs' = [rs EXCEPT ![c] = [Idle EXCEPT !.pc = "go_head", !.op = "original",
                                          !.quad = [NoQuad EXCEPT !.imageId = imageId]]]
  /\ UNCHANGED <<records, objects, jobs, attempts, hooks, nextId, budget, proc, late>>

\* getOriginal: S3Service.exists(originalS3Key); absent throws
OriginalHead(c) ==
  /\ rs[c].pc = "go_head"
  /\ LET originalS3Key == getOriginalKey(rs[c].quad.imageId) IN
       IF originalS3Key \in objects
       THEN Return(c, "source", originalS3Key)
       ELSE Return(c, "notfound", <<>>)
  /\ UNCHANGED <<records, objects, jobs, attempts, hooks, nextId, budget, proc, late>>

\* ------------------------------------------------------------- controller
\* the message of the error a call ends with, word by word
ErrorMessage(res) ==
  CASE res = "notfound" -> <<"Original", "image", "not", "found">>
    [] res = "nomatch" -> <<"Image", "not", "found">>
    [] res = "conflict" -> <<"E11000", "duplicate", "key", "error">>
    [] res = "validation" -> <<"ImageVariants", "validation", "failed">>
    [] res \in {"s3error", "s3batcherror"} -> <<"S3", "delete", "failed">>
    [] OTHER -> <<"Connection", "is", "closed">>

\* error.message.includes('not found')
IncludesNotFound(msg) ==
  \E i \in 1..(Len(msg) - 1) : msg[i] = "not" /\ msg[i + 1] = "found"

\* getImage: the HTTP status set for the outcome of the service call
HttpStatus(res) ==
  IF res = "badrequest" THEN 400
  ELSE IF res = "forbidden" THEN 403
  ELSE IF res \in {"variant", "original", "source"} THEN 302
  ELSE IF IncludesNotFound(ErrorMessage(res)) THEN 404
  ELSE 500

\* env.S3_PUBLIC_URL, the base of every redirect target
S3_PUBLIC_URL == <<"c", "d", "n">>

\* the characters encodeURIComponent leaves as they are, among those of the
\* keys of the model
Unreserved ==
  {"a", "b", "e", "g", "j", "n", "p", "w", "x", "_", Dot, "-",
   "0", "1", "2", "3", "4", "5", "6", "7", "8", "9"}

RECURSIVE encodeKey(_)
\* s3Key.split('/').map(encodeURIComponent).join('/'): every character but
\* '/' and the unreserved ones is escaped
encodeKey(s) ==
  IF s = <<>> THEN <<>>
  ELSE (IF Head(s) = "/" \/ Head(s) \in Unreserved
        THEN <<Head(s)>> ELSE <<"%", Head(s)>>) \o encodeKey(Tail(s))

\* S3Service.getPublicUrl(s3Key)
getPublicUrl(s3Key) == S3_PUBLIC_URL \o <<"/">> \o encodeKey(s3Key)

\* result.shouldStreamOriginal of getOrCreateVariant
shouldStreamOriginal(res) == res = "original"

isProcessingNever(res) == FALSE

\* getImage: isProcessing starts false and is assigned only from the result
\* of getOrCreateVariant; the getOriginal branch leaves it alone
isProcessing(res) ==
  IF res \in {"variant", "original"} THEN shouldStreamOriginal(res) ELSE FALSE

\* getImage: the headers of the redirect
RedirectHeaders(res, key) ==
  [Location |-> getPublicUrl(key),
   XImageStatus |-> IF isProcessing(res) THEN "processing" ELSE "ready",
   CacheControl |-> IF isProcessing(res)
                    THEN "no-cache, no-store, must-revalidate"
                    ELSE "public, max-age=31536000, immutable"]

\* ------------------------------------------------------------ GET handler
NaN == -1

DigitValue(ch) ==
  CASE ch = "0" -> 0 [] ch = "1" -> 1 [] ch = "2" -> 2 [] ch = "3" -> 3
    [] ch = "4" -> 4 [] ch = "5" -> 5 [] ch = "6" -> 6 [] ch = "7" -> 7
    [] ch = "8" -> 8 [] ch = "9" -> 9 [] OTHER -> NaN

RECURSIVE parseDigits(_, _)
\* the value of the leading decimal digits of s, after the digits worth acc
parseDigits(s, acc) ==
  IF s = <<>> \/ DigitValue(Head(s)) = NaN THEN acc
  ELSE parseDigits(Tail(s), 10 * acc + DigitValue(Head(s)))

\* parseInt(val, 10) of a string without sign or leading blanks
parseInt(s) ==
  IF s = <<>> \/ DigitValue(Head(s)) = NaN THEN NaN ELSE parseDigits(s, 0)

startsWith(s, p) == Len(p) <= Len(s) /\ SubSeq(s, 1, Len(p)) = p

endsWith(s, p) == Len(p) <= Len(s) /\ SubSeq(s, Len(s) - Len(p) + 1, Len(s)) = p

\* env.RESIZED_IMAGE_PATH as configured
RESIZED_IMAGE_PATH == <<"/", "r", "/">>

\* the largest width or height ImageQuerySchema admits
MaxDimension == 5000

\* ImageQuerySchema: w and h, transformed then refined
ValidDimension(val) ==
  val = <<>> \/ (parseInt(val) # NaN /\ parseInt(val) > 0 /\ parseInt(val) <= MaxDimension)

\* ImageQuerySchema.safeParse(ctx.query).success; an absent parameter is
\* <<>> for w and h and Null for format and force_resize
ValidQuery(query) ==
  /\ ValidDimension(query.w)
  /\ ValidDimension(query.h)
  /\ query.format \in {Null, "jpeg", "jpg", "png", "webp"}
  /\ query.force_resize \in {Null, "true", "false"}
  /\ (query.w = <<>>) = (query.h = <<>>)

\* ImageParamsSchema: imageId is not empty and matches /^[\w\-\.]+$/; the
\* characters of the model that the class admits
IdChars ==
  {"a", "b", "e", "g", "j", "n", "p", "w", "x", "_", "-", Dot,
   "0", "1", "2", "3", "4", "5", "6", "7", "8", "9"}

ValidImageId(imageId) ==
  /\ Len(imageId) >= 1
  /\ \A i \in 1..Len(imageId) : imageId[i] \in IdChars

\* getImage: path without its first slash
pathWithoutSlash(path) == IF startsWith(path, <<"/">>) THEN Tail(path) ELSE path

\* getImage: the configured prefix without its first and its last slash
resizedPathPrefix ==
  LET p == IF startsWith(RESIZED_IMAGE_PATH, <<"/">>)
           THEN Tail(RESIZED_IMAGE_PATH) ELSE RESIZED_IMAGE_PATH
  IN IF endsWith(p, <<"/">>) THEN SubSeq(p, 1, Len(p) - 1) ELSE p

ForbiddenExactOnly(path) ==
  /\ resizedPathPrefix # <<>>
  /\ pathWithoutSlash(path) = resizedPathPrefix

\* getImage: the guard on the resized-image path
Forbidden(path) ==
  /\ resizedPathPrefix # <<>>
  /\ \/ pathWithoutSlash(path) = resizedPathPrefix
     \/ startsWith(pathWithoutSlash(path), resizedPathPrefix \o <<"/">>)

\* getImage(ctx) up to its service call: validation, the forbidden-prefix
\* guard, the defaults, then getOrCreateVariant or getOriginal
GetImage(c, path, query) ==
  IF ~ValidQuery(query)
  THEN /\ CanStart(c)
       /\ Return(c, "badrequest", <<>>)
       /\ UNCHANGED <<records, objects, jobs, attempts, hooks, nextId, budget, proc, late>>
  ELSE IF Forbidden(path)
  THEN /\ CanStart(c)
       /\ Return(c, "forbidden", <<>>)
       /\ UNCHANGED <<records, objects, jobs, attempts, hooks, nextId, budget, proc, late>>
  ELSE LET imageId == pathWithoutSlash(path)
           imageFormat == IF query.format = Null THEN "webp" ELSE query.format
           forceResize == query.force_resize = "true"
       IN IF query.w # <<>> /\ query.h # <<>>
          THEN StartResolve(c, [imageId |-> imageId, width |-> parseInt(query.w),
                                height |-> parseInt(query.h),
                                imageFormat |-> imageFormat], forceResize)
          ELSE StartGetOriginal(c, imageId)

\* ---------------------------------------------------------------- worker
RenderedSize == 7

\* the error messages of the pipeline and of the queue
DocNotFound == "MongoDB document not found"
ProcessingUpdateNull == "Failed to update document to Processing status"
DownloadFailed == "S3 download failed"
UploadFailed == "S3 upload failed"
ReadyUpdateNull == "Failed to update MongoDB document to Ready"
StalledTooOften == "job stalled more than allowable limit"

\* the queue hands a waiting job to a worker, which starts processImageVariant
Dispatch(j) ==
  /\ proc.pulling
  /\ j \in JobIds
  /\ jobs[j].state = "waiting"
  /\ jobs' = [jobs EXCEPT ![j].state = "active"]
  /\ attempts' = attempts \cup {Att(j)}
  /\ UNCHANGED <<records, objects, hooks, rs, nextId, budget, proc, late>>

\* the execution goes on to pc, having recorded the timings of the steps done
Step(a, pc, done) ==
  attempts' = (attempts \ {a})
                \cup {[a EXCEPT !.pc = pc, !.timings = @ \o done]}

\* the execution enters the catch block with error err
Throw(a, err, done) ==
  attempts' = (attempts \ {a})
                \cup {[a EXCEPT !.pc = "catch", !.err = err, !.timings = @ \o done]}

\* the executions of job j that hold the lock (or not) and are at pc
At(j, l, pc) == {a \in attempts : a.job = j /\ a.lock = l /\ a.pc = pc}

\* Step 1: findById(mongoDocId); a missing document throws
CheckExists(j, l) ==
  \E a \in At(j, l, "check") :
    /\ IF findById(jobs[j].recId) = {}
       THEN Throw(a, DocNotFound, <<"mongoCheck">>)
       ELSE Step(a, "mark", <<"mongoCheck">>)
    /\ UNCHANGED <<records, objects, jobs, hooks, rs, nextId, budget, proc, late>>

ToProcessing(r) == [r EXCEPT !.status = "processing"]

\* Step 2: findByIdAndUpdate(mongoDocId, {status: Processing}); null throws
MarkProcessing(j, l) ==
  \E a \in At(j, l, "mark") :
    /\ records' = {IF r.id = jobs[j].recId THEN ToProcessing(r) ELSE r : r \in records}
    /\ IF findById(jobs[j].recId) = {}
       THEN Throw(a, ProcessingUpdateNull, <<"mongoUpdate1">>)
       ELSE Step(a, "render", <<"mongoUpdate1">>)
    /\ UNCHANGED <<objects, jobs, hooks, rs, nextId, budget, proc, late>>

\* Steps 3 and 4 succeed: the original is downloaded and resized
Render(j, l) ==
  \E a \in At(j, l, "render") :
    /\ jobs[j].originalS3Key \in objects
    /\ Step(a, "upload", <<"s3Download", "sharpProcessing">>)
    /\ UNCHANGED <<records, objects, jobs, hooks, rs, nextId, budget, proc, late>>

\* Step 3 or 4 throws or times out (download error, sharp error)
RenderFails(j, l) ==
  \E a \in At(j, l, "render") :
    /\ budget.faults > 0
    /\ budget' = [budget EXCEPT !.faults = @ - 1]
    /\ Throw(a, DownloadFailed, <<>>)
    /\ UNCHANGED <<records, objects, jobs, hooks, rs, nextId, proc, late>>

UploadSkipped(j, l) ==
  \E a \in At(j, l, "upload") :
    /\ Step(a, "ready", <<>>)
    /\ UNCHANGED <<records, objects, jobs, hooks, rs, nextId, budget, proc, late>>

\* Step 5: S3Service.uploadImage(variantS3Key, resizedBuffer, contentType)
Upload(j, l) ==
  \E a \in At(j, l, "upload") :
    /\ objects' = objects \cup {jobs[j].variantS3Key}
    /\ Step(a, "ready", <<"s3Upload">>)
    /\ UNCHANGED <<records, jobs, hooks, rs, nextId, budget, proc, late>>

\* Step 5 throws: the object store rejects the upload
UploadFails(j, l) ==
  \E a \in At(j, l, "upload") :
    /\ budget.faults > 0
    /\ budget' = [budget EXCEPT !.faults = @ - 1]
    /\ Throw(a, UploadFailed, <<>>)
    /\ UNCHANGED <<records, objects, jobs, hooks, rs, nextId, proc, late>>

ToReady(r) == [r EXCEPT !.status = "ready", !.fileSize = RenderedSize]

\* Step 6: findByIdAndUpdate(mongoDocId, {status: Ready, fileSize}); null throws
MarkReady(j, l) ==
  \E a \in At(j, l, "ready") :
    /\ records' = {IF r.id = jobs[j].recId THEN ToReady(r) ELSE r : r \in records}
    /\ IF findById(jobs[j].recId) = {}
       THEN Throw(a, ReadyUpdateNull, <<"mongoUpdate2">>)
       ELSE Step(a, "return", <<"mongoUpdate2">>)
    /\ UNCHANGED <<objects, jobs, hooks, rs, nextId, budget, proc, late>>

\* updateProgress(100); processImageVariant returns {success: true}; the
\* queue completes the job of a worker that still holds its lock
\* (removeOnComplete)
Complete(j, l) ==
  \E a \in At(j, l, "return") :
    /\ attempts' = attempts \ {a}
    /\ jobs' = IF l THEN [jobs EXCEPT ![j].state = "completed"] ELSE jobs
    /\ UNCHANGED <<records, objects, hooks, rs, nextId, budget, proc, late>>

ToFailed(r, err) == [r EXCEPT !.status = "failed", !.failedReason = err,
                              !.failedAt = "now"]

AnnotateFailedThenReturn(j, l) ==
  \E a \in At(j, l, "catch") :
    /\ records' = {IF r.id = jobs[j].recId THEN ToFailed(r, a.err) ELSE r : r \in records}
    /\ Step(a, "return", <<>>)
    /\ UNCHANGED <<objects, jobs, hooks, rs, nextId, budget, proc, late>>

\* catch block: findByIdAndUpdate(mongoDocId, {status: Failed, ...})
AnnotateFailed(j, l) ==
  \E a \in At(j, l, "catch") :
    /\ records' = {IF r.id = jobs[j].recId THEN ToFailed(r, a.err) ELSE r : r \in records}
    /\ Step(a, "throw", <<>>)
    /\ UNCHANGED <<objects, jobs, hooks, rs, nextId, budget, proc, late>>

\* catch block: the update to Failed rejects or times out; the inner catch
\* logs. The store has applied the update or not
AnnotateFails(j, l, applied) ==
  \E a \in At(j, l, "catch") :
    /\ records' = IF applied
                  THEN {IF r.id = jobs[j].recId THEN ToFailed(r, a.err) ELSE r : r \in records}
                  ELSE records
    /\ Step(a, "throw", <<>>)
    /\ UNCHANGED <<objects, jobs, hooks, rs, nextId, budget, proc, late>>

\* the pipeline steps that change a store and run under withTimeout
TimedSteps == {"mark", "upload", "ready"}

\* withTimeout: the error of the timer, `${operationName} timed out after
\* ${timeoutMs}ms`
TimeoutMessage(pc) ==
  CASE pc = "mark" -> "MongoDB update to Processing timed out after 15000ms"
    [] pc = "upload" -> "S3 upload timed out after 120000ms"
    [] pc = "ready" -> "MongoDB update to Ready timed out after 15000ms"

\* an operation of job j that its pipeline step has given up waiting for
Abandoned(j, op) == [job |-> j, op |-> op]

\* withTimeout: the timer wins the race. The step throws the timer's error;
\* the operation has been sent and is not cancelled
StepTimesOut(j, l, pc) ==
  \E a \in At(j, l, pc) :
    /\ pc \in TimedSteps
    /\ budget.faults > 0
    /\ budget' = [budget EXCEPT !.faults = @ - 1]
    /\ Throw(a, TimeoutMessage(pc), <<>>)
    /\ late' = late \cup {Abandoned(j, pc)}
    /\ UNCHANGED <<records, objects, jobs, hooks, rs, nextId, proc>>

\* the store carries out an operation that was sent before its step timed out
LateEffect(j, op) ==
  /\ j \in JobIds
  /\ Abandoned(j, op) \in late
  /\ late' = late \ {Abandoned(j, op)}
  /\ CASE op = "mark" ->
            /\ records' = {IF r.id = jobs[j].recId THEN ToProcessing(r) ELSE r : r \in records}
            /\ UNCHANGED objects
       [] op = "upload" ->
            /\ objects' = objects \cup {jobs[j].variantS3Key}
            /\ UNCHANGED records
       [] op = "ready" ->
            /\ records' = {IF r.id = jobs[j].recId THEN ToReady(r) ELSE r : r \in records}
            /\ UNCHANGED objects
  /\ UNCHANGED <<jobs, attempts, hooks, rs, nextId, budget, proc>>

\* catch block: throw error. The queue counts the attempt, schedules the
\* retry or fails the job, and emits 'failed' to the worker's listener
Rethrow(j, l) ==
  \E a \in At(j, l, "throw") :
    /\ attempts' = attempts \ {a}
    /\ IF l
       THEN LET made == jobs[j].attemptsMade + 1 IN
            /\ jobs' = [jobs EXCEPT ![j].attemptsMade = made,
                          ![j].state = IF made < JobAttempts THEN "waiting"
                                           ELSE "failed"]
            /\ hooks' = hooks \cup {Hk(j, made, a.err)}
       ELSE UNCHANGED <<jobs, hooks>>
    /\ UNCHANGED <<records, objects, rs, nextId, budget, proc, late>>

\* the lock of an active job expires (lockDuration, stalledInterval): the
\* queue re-dispatches the job, or fails it after maxStalledCount stalls;
\* the execution that lost the lock keeps running
Stall(j) ==
  /\ j \in JobIds
  /\ jobs[j].state = "active"
  /\ budget.stalls > 0
  /\ budget' = [budget EXCEPT !.stalls = @ - 1]
  /\ attempts' = {IF x.job = j THEN [x EXCEPT !.lock = FALSE] ELSE x : x \in attempts}
  /\ IF jobs[j].stalled < maxStalledCount
     THEN /\ jobs' = [jobs EXCEPT ![j].state = "waiting", ![j].stalled = @ + 1]
          /\ UNCHANGED hooks
     ELSE /\ jobs' = [jobs EXCEPT ![j].state = "failed"]
          /\ hooks' = hooks \cup {Hk(j, jobs[j].attemptsMade, StalledTooOften)}
  /\ UNCHANGED <<records, objects, rs, nextId, proc, late>>

\* ------------------------------------------------------ the 'failed' hook
HookStep(h, pc) == hooks' = (hooks \ {h}) \cup {[h EXCEPT !.pc = pc]}

\* the executions of the listener for job j with job.attemptsMade = n at pc
HookAt(j, n, pc) == {h \in hooks : h.job = j /\ h.attemptsMade = n /\ h.pc = pc}

HookAnnotateAlwaysFinal(j, n) ==
  \E h \in HookAt(j, n, "annotate") :
    /\ records' = {IF r.id = jobs[j].recId THEN ToFailed(r, h.err) ELSE r : r \in records}
    /\ HookStep(h, "read")
    /\ UNCHANGED <<objects, jobs, attempts, rs, nextId, budget, proc, late>>

\* on('failed'): findByIdAndUpdate(mongoDocId, {status: Failed, ...}), then
\* return unless job.attemptsMade >= job.opts.attempts
HookAnnotate(j, n) ==
  \E h \in HookAt(j, n, "annotate") :
    /\ records' = {IF r.id = jobs[j].recId THEN ToFailed(r, h.err) ELSE r : r \in records}
    /\ IF n >= JobAttempts
       THEN HookStep(h, "read")
       ELSE hooks' = hooks \ {h}
    /\ UNCHANGED <<objects, jobs, attempts, rs, nextId, budget, proc, late>>

\* on('failed'): variant = findById(mongoDocId);
\* return when variant && requeueCount >= 2
HookRead(j, n) ==
  \E h \in HookAt(j, n, "read") :
    /\ IF \E r \in findById(jobs[j].recId) : r.requeueCount >= MAX_REQUEUES
       THEN hooks' = hooks \ {h}
       ELSE HookStep(h, "add")
    /\ UNCHANGED <<records, objects, jobs, attempts, rs, nextId, budget, proc, late>>

\* on('failed'): imageVariantQueue.add('process-image-variant', job.data, ...)
HookRequeue(j, n) ==
  \E h \in HookAt(j, n, "add") :
    /\ budget.jobs > 0
    /\ budget' = [budget EXCEPT !.jobs = @ - 1]
    /\ jobs' = Append(jobs, NewJob(jobs[j].quad, jobs[j].recId, "hook"))
    /\ HookStep(h, "update")
    /\ UNCHANGED <<records, objects, attempts, rs, nextId, proc, late>>

ToRequeued(r) == [r EXCEPT !.status = "queued", !.requeueCount = @ + 1,
                           !.failedReason = Null, !.failedAt = Null]

\* on('failed'): findByIdAndUpdate(mongoDocId, {status: Queued, $inc, ...})
HookUpdate(j, n) ==
  \E h \in HookAt(j, n, "update") :
    /\ records' = {IF r.id = jobs[j].recId THEN ToRequeued(r) ELSE r : r \in records}
    /\ hooks' = hooks \ {h}
    /\ UNCHANGED <<objects, jobs, attempts, rs, nextId, budget, proc, late>>

\* ------------------------------------------------- worker process events
Signals == {"SIGINT", "SIGTERM"}

\* a call of gracefulShutdown(signal), at the await it has reached
Shutdown(signal, pc) == [signal |-> signal, pc |-> pc]

\* gracefulShutdown(signal) up to its first await: the monitors are stopped
\* and imageVariantWorker.close() is called, which stops the pulling of jobs
gracefulShutdown(signal) ==
  proc' = [proc EXCEPT !.pulling = FALSE,
                       !.events = @ \cup {signal},
                       !.seqs = @ \cup {Shutdown(signal, "closeWorker")}]

\* process.on('SIGINT'), process.on('SIGTERM')
Signal(sig) ==
  /\ proc.exit = NoExit
  /\ sig \notin proc.events
  /\ gracefulShutdown(sig)
  /\ UNCHANGED <<records, objects, jobs, attempts, hooks, rs, nextId, budget, late>>

\* process.on('uncaughtException'): log, then gracefulShutdown
UncaughtException ==
  /\ proc.exit = NoExit
  /\ "uncaughtException" \notin proc.events
  /\ gracefulShutdown("uncaughtException")
  /\ UNCHANGED <<records, objects, jobs, attempts, hooks, rs, nextId, budget, late>>

\* process.on('unhandledRejection'): log
UnhandledRejection ==
  /\ proc.exit = NoExit
  /\ "unhandledRejection" \notin proc.events
  /\ proc' = [proc EXCEPT !.events = @ \cup {"unhandledRejection"}]
  /\ UNCHANGED <<records, objects, jobs, attempts, hooks, rs, nextId, budget, late>>

\* the sequence sq goes on to the await pc, the connections done closed
SeqStep(sq, pc, done) ==
  proc' = [proc EXCEPT !.seqs = (@ \ {sq}) \cup {[sq EXCEPT !.pc = pc]},
                       !.closed = @ \cup done]

WorkerClosedAtOnce(signal) ==
  LET sq == Shutdown(signal, "closeWorker") IN
  /\ proc.exit = NoExit
  /\ sq \in proc.seqs
  /\ SeqStep(sq, "quitMonitor", {"worker"})
  /\ UNCHANGED <<records, objects, jobs, attempts, hooks, rs, nextId, budget, late>>

\* gracefulShutdown: await imageVariantWorker.close() returns, once the jobs
\* being processed have finished; the worker's queue connection is closed.
\* redisMonitor.quit() is called
WorkerClosed(signal) ==
  LET sq == Shutdown(signal, "closeWorker") IN
  /\ proc.exit = NoExit
  /\ sq \in proc.seqs
  /\ attempts = {}
  /\ SeqStep(sq, "quitMonitor", {"worker"})
  /\ UNCHANGED <<records, objects, jobs, attempts, hooks, rs, nextId, budget, late>>

\* gracefulShutdown: await redisMonitor.quit() returns;
\* mongoose.connection.close() is called, and from then on the connection
\* serves no operation
MonitorQuit(signal) ==
  LET sq == Shutdown(signal, "quitMonitor") IN
  /\ proc.exit = NoExit
  /\ sq \in proc.seqs
  /\ SeqStep(sq, "closeMongo", {"monitor", "mongo"})
  /\ UNCHANGED <<records, objects, jobs, attempts, hooks, rs, nextId, budget, late>>

\* process.exit(code): nothing of the process runs any more
Exit(code, signal) ==
  proc' = [proc EXCEPT !.seqs = {}, !.exit = [code |-> code, signal |-> signal]]

\* gracefulShutdown: await mongoose.connection.close() returns; process.exit(0)
MongoClosed(signal) ==
  LET sq == Shutdown(signal, "closeMongo") IN
  /\ proc.exit = NoExit
  /\ sq \in proc.seqs
  /\ Exit(0, signal)
  /\ UNCHANGED <<records, objects, jobs, attempts, hooks, rs, nextId, budget, late>>

\* gracefulShutdown: one of the three awaits rejects; catch: process.exit(1)
ShutdownFails(signal) ==
  /\ proc.exit = NoExit
  /\ \E sq \in proc.seqs : sq.signal = signal
  /\ Exit(1, signal)
  /\ UNCHANGED <<records, objects, jobs, attempts, hooks, rs, nextId, budget, late>>

\* on('failed') while the metadata-store connection is closed: the
\* operation the listener awaits rejects. The rejection of the annotation
\* is caught and the lookup that follows rejects too; the listener ends
\* without a write
HookFails(j, n) ==
  /\ "mongo" \in proc.closed
  /\ \E h \in hooks :
       /\ h.job = j /\ h.attemptsMade = n
       /\ h.pc \in {"annotate", "read", "update"}
       /\ hooks' = hooks \ {h}
  /\ UNCHANGED <<records, objects, jobs, attempts, rs, nextId, budget, proc, late>>

\* --------------------------------------------------------- specifications
ResolverStep(c) ==
  \/ ForceFind(c) \/ ForceDeleteRecord(c) \/ ForceDeleteObject(c)
  \/ Find(c) \/ HeadOriginal(c) \/ Create(c) \/ Enqueue(c)

WorkerStep(j, l) ==
  \/ CheckExists(j, l) \/ MarkProcessing(j, l) \/ Render(j, l) \/ RenderFails(j, l)
  \/ Upload(j, l) \/ MarkReady(j, l) \/ Complete(j, l)
  \/ AnnotateFailed(j, l) \/ Rethrow(j, l)

HookRun(j, n) ==
  \/ HookAnnotate(j, n) \/ HookRead(j, n) \/ HookRequeue(j, n) \/ HookUpdate(j, n)

Next ==
  \/ \E c \in Callers, q \in Quads, f \in BOOLEAN : StartResolve(c, q, f)
  \/ \E c \in Callers, sel \in Selectors : StartDelete(c, sel)
  \/ \E c \in Callers : ResolverStep(c)
  \/ \E c \in Callers : EnqueueFails(c)
  \/ \E c \in Callers : DeleteFind(c) \/ DeleteObjects(c) \/ DeleteMany(c)
  \/ \E j \in JobSlots : Dispatch(j)
  \/ \E j \in JobSlots, l \in BOOLEAN : WorkerStep(j, l)
  \/ \E j \in JobSlots, n \in AttemptCounts : HookRun(j, n)

Spec == Init /\ [][Next]_vars

\* Cold misses only: concurrent identical requests without forceResize, the
\* original present, the queue and the worker running; one job may exhaust
\* its attempts.
InitCold ==
  Start({getOriginalKey(PicId)},
        [jobs |-> MaxJobs, stalls |-> 0, faults |-> JobAttempts, calls |-> 0])

ColdStep(c) == Find(c) \/ HeadOriginal(c) \/ Create(c) \/ Enqueue(c)

NextCold ==
  \/ \E c \in Callers, q \in Quads : StartResolve(c, q, FALSE)
  \/ \E c \in Callers : ColdStep(c)
  \/ \E j \in JobSlots : Dispatch(j)
  \/ \E j \in JobSlots, l \in BOOLEAN : WorkerStep(j, l)
  \/ \E j \in JobSlots, n \in AttemptCounts : HookRun(j, n)

SpecCold == InitCold /\ [][NextCold]_vars

\* Cold misses with stall re-dispatch: the lock of an active job may expire
\* while its execution is still running.
InitStall ==
  Start({getOriginalKey(PicId)},
        [jobs |-> MaxJobs, stalls |-> MaxStalls, faults |-> JobAttempts, calls |-> 0])

NextStall ==
  \/ \E c \in Callers, q \in Quads : StartResolve(c, q, FALSE)
  \/ \E c \in Callers : ColdStep(c)
  \/ \E j \in JobSlots : Dispatch(j)
  \/ \E j \in JobSlots : Stall(j)
  \/ \E j \in JobSlots, l \in BOOLEAN : WorkerStep(j, l)
  \/ \E j \in JobSlots, n \in AttemptCounts : HookRun(j, n)

SpecStall == InitStall /\ [][NextStall]_vars

\* Retry exhaustion: one request; the render step of every attempt fails, and
\* nothing but the worker and the hook touches the record. The budget
\* lets the requeue policy run to its end and one job further.
InitRetry ==
  Start({getOriginalKey(PicId)},
        [jobs |-> MAX_REQUEUES + 2, stalls |-> 0,
         faults |-> JobAttempts * (MAX_REQUEUES + 2), calls |-> 0])

FailingStep(j, l) ==
  \/ CheckExists(j, l) \/ MarkProcessing(j, l) \/ RenderFails(j, l)
  \/ AnnotateFailed(j, l) \/ Rethrow(j, l)

NextRetry ==
  \/ \E q \in Quads : StartResolve(1, q, FALSE)
  \/ \E c \in Callers : ColdStep(c)
  \/ \E j \in JobSlots : Dispatch(j)
  \/ \E j \in JobSlots, l \in BOOLEAN : FailingStep(j, l)
  \/ \E j \in JobSlots, n \in AttemptCounts : HookRun(j, n)

SpecRetry == InitRetry /\ [][NextRetry]_vars

\* A record deleted under its live job: one cold-miss request, one deleteImage
\* call, the queue and the worker running. No render fails, so an attempt
\* fails only because the record named by its mongoDocId is gone.
InitMissing ==
  Start({getOriginalKey(PicId)},
        [jobs |-> MAX_REQUEUES + 2, stalls |-> 0, faults |-> 0, calls |-> 0])

MissingStep(j, l) ==
  \/ CheckExists(j, l) \/ MarkProcessing(j, l) \/ Render(j, l) \/ Upload(j, l)
  \/ MarkReady(j, l) \/ Complete(j, l) \/ AnnotateFailed(j, l) \/ Rethrow(j, l)

NextMissing ==
  \/ \E q \in Quads : StartResolve(1, q, FALSE)
  \/ \E sel \in Selectors : StartDelete(2, sel)
  \/ \E c \in Callers : ColdStep(c)
  \/ \E c \in Callers : DeleteFind(c) \/ DeleteObjects(c) \/ DeleteMany(c)
  \/ \E j \in JobSlots : Dispatch(j)
  \/ \E j \in JobSlots, l \in BOOLEAN : MissingStep(j, l)
  \/ \E j \in JobSlots, n \in AttemptCounts : HookRun(j, n)

SpecMissing == InitMissing /\ [][NextMissing]_vars

TypeOK ==
  /\ \A r \in records : r.status \in {"queued", "processing", "ready", "failed"}
  /\ budget.jobs >= 0

\* ------------------------------------------------------------ properties
InCall(c) == rs[c].pc \notin {"new", "done"}

LiveJobs == {j \in JobIds : jobs[j].state \in LiveStates}

ResolverJobs == {j \in JobIds : jobs[j].by = "resolver"}

HookJobs == {j \in JobIds : jobs[j].by = "hook"}

\* no call, job attempt or hook execution is in progress or pending
Quiescent ==
  /\ \A c \in Callers : ~InCall(c)
  /\ LiveJobs = {}
  /\ attempts = {}
  /\ hooks = {}

\* ----------------------------------------------- requests one at a time
\* imageId alone, or the whole quadruple
SeqSelectors == Selectors \cup Quads

\* The service starts with an empty collection and an empty queue; the
\* original is in the bucket or not.
InitSeq ==
  \E objs \in {{getOriginalKey(PicId)}, {}} :
    Start(objs, [jobs |-> MaxJobs, stalls |-> 0, faults |-> MaxFaults,
                 calls |-> MaxCalls - 1])

\* no request is being served
SeqFree == \A d \in Callers : ~InCall(d)

\* the response has been sent; the client may send its next request
Again(c) ==
  /\ rs[c].pc = "done"
  /\ budget.calls > 0
  /\ budget' = [budget EXCEPT !.calls = @ - 1]
  /\ rs' = [rs EXCEPT ![c] = Idle]
  /\ UNCHANGED <<records, objects, jobs, attempts, hooks, nextId, proc, late>>

SeqResolve(c, q, forceResize) == SeqFree /\ StartResolve(c, q, forceResize)

SeqDelete(c, sel) == SeqFree /\ StartDelete(c, sel)

SeqGetOriginal(c, imageId) == SeqFree /\ StartGetOriginal(c, imageId)

\* One client sends up to MaxCalls requests, one at a time; the queue, the
\* worker and the failed hook run concurrently with them.
NextSeq ==
  \/ \E q \in Quads, f \in BOOLEAN : SeqResolve(1, q, f)
  \/ \E sel \in SeqSelectors : SeqDelete(1, sel)
  \/ \E i \in ImageIds : SeqGetOriginal(1, i)
  \/ \E c \in Callers : Again(c)
  \/ \E c \in Callers : ResolverStep(c)
  \/ \E c \in Callers : OriginalHead(c)
  \/ \E c \in Callers : DeleteFind(c) \/ DeleteObjects(c) \/ DeleteMany(c)
  \/ \E j \in JobSlots : Dispatch(j)
  \/ \E j \in JobSlots, l \in BOOLEAN : WorkerStep(j, l)
  \/ \E j \in JobSlots, n \in AttemptCounts : HookRun(j, n)

SpecSeq == InitSeq /\ [][NextSeq]_vars

\* Requests one at a time over a metadata store and an object store whose
\* delete operations may fail.
NextFault ==
  \/ \E q \in Quads, f \in BOOLEAN : SeqResolve(1, q, f)
  \/ \E sel \in SeqSelectors : SeqDelete(1, sel)
  \/ \E c \in Callers : Again(c)
  \/ \E c \in Callers : ResolverStep(c)
  \/ \E c \in Callers : ForceDeleteRecordFails(c)
  \/ \E c \in Callers, gone \in BOOLEAN : ForceDeleteObjectFails(c, gone)
  \/ \E c \in Callers : DeleteFind(c) \/ DeleteObjects(c) \/ DeleteMany(c)
  \/ \E c \in Callers : DeleteObjectsFails(c)
  \/ \E j \in JobSlots : Dispatch(j)
  \/ \E j \in JobSlots, l \in BOOLEAN : WorkerStep(j, l)
  \/ \E j \in JobSlots, n \in AttemptCounts : HookRun(j, n)

SpecFault == InitSeq /\ [][NextFault]_vars

\* forceResize requests only, one at a time, one more than MaxCalls; no
\* render fails, and the failed listeners of the jobs whose record was
\* displaced have not run yet.
InitForce ==
  Start({getOriginalKey(PicId)},
        [jobs |-> MaxJobs + 1, stalls |-> 0, faults |-> 0, calls |-> MaxCalls])

NextForce ==
  \/ \E q \in Quads : SeqResolve(1, q, TRUE)
  \/ \E c \in Callers : Again(c)
  \/ \E c \in Callers : ResolverStep(c)
  \/ \E j \in JobSlots : Dispatch(j)
  \/ \E j \in JobSlots, l \in BOOLEAN : MissingStep(j, l)

SpecForce == InitForce /\ [][NextForce]_vars

\* The GET requests of the model: the image, the configured prefix alone,
\* a path under it, and a path that merely begins with its letters.
Paths ==
  {<<"/">> \o PicId, <<"/", "r">>, <<"/", "r", "/">> \o PicId, <<"/", "r">> \o PicId}

Query(w, h, format, force_resize) ==
  [w |-> w, h |-> h, format |-> format, force_resize |-> force_resize]

\* a rendition in each spelling of the JPEG format, forced or not, the
\* original, and two queries that fail validation
Queries ==
  {Query(<<"2", "0">>, <<"1", "0">>, f, fr) : f \in {"jpeg", "jpg"}, fr \in {Null, "true"}}
    \cup {Query(<<>>, <<>>, Null, Null),
          Query(<<"0">>, <<"1", "0">>, Null, Null),
          Query(<<"2", "0">>, <<>>, Null, Null)}

SeqGet(c, path, query) == SeqFree /\ GetImage(c, path, query)

\* One client sends up to MaxCalls GET requests, one at a time, through
\* getImage; the queue, the worker and the failed hook run concurrently.
NextEdge ==
  \/ \E path \in Paths, query \in Queries : SeqGet(1, path, query)
  \/ \E c \in Callers : Again(c)
  \/ \E c \in Callers : ResolverStep(c)
  \/ \E c \in Callers : OriginalHead(c)
  \/ \E j \in JobSlots : Dispatch(j)
  \/ \E j \in JobSlots, l \in BOOLEAN : WorkerStep(j, l)
  \/ \E j \in JobSlots, n \in AttemptCounts : HookRun(j, n)

SpecEdge == InitSeq /\ [][NextEdge]_vars

ProcessEvents == Signals \cup {"uncaughtException"}

\* One cold-miss request, the queue and the worker process, which may get
\* each signal, an uncaught exception and an unhandled rejection once; what
\* the worker process runs, it runs until the process has exited.
NextShutdown ==
  \/ \E q \in Quads : StartResolve(1, q, FALSE)
  \/ \E c \in Callers : ColdStep(c)
  \/ \E j \in JobSlots : Dispatch(j)
  \/ \E j \in JobSlots, l \in BOOLEAN : proc.exit = NoExit /\ WorkerStep(j, l)
  \/ \E j \in JobSlots, n \in AttemptCounts :
       /\ proc.exit = NoExit
       /\ IF "mongo" \in proc.closed
          THEN HookRequeue(j, n) \/ HookFails(j, n)
          ELSE HookRun(j, n)
  \/ \E sig \in Signals : Signal(sig)
  \/ UncaughtException
  \/ UnhandledRejection
  \/ \E e \in ProcessEvents : WorkerClosed(e)
  \/ \E e \in ProcessEvents : MonitorQuit(e)
  \/ \E e \in ProcessEvents : MongoClosed(e)
  \/ \E e \in ProcessEvents : ShutdownFails(e)

SpecShutdown == InitCold /\ [][NextShutdown]_vars

\* The whole pipeline: one cold-miss request and one deleteImage call, the
\* queue, the worker and the failed hook; a download, an upload or the
\* failure annotation may fail.
InitPipeline ==
  Start({getOriginalKey(PicId)},
        [jobs |-> MaxJobs, stalls |-> 0, faults |-> MaxFaults + 1, calls |-> 0])

PipelineStep(j, l) ==
  \/ WorkerStep(j, l)
  \/ UploadFails(j, l)
  \/ \E applied \in BOOLEAN : AnnotateFails(j, l, applied)

NextPipeline ==
  \/ \E q \in Quads : StartResolve(1, q, FALSE)
  \/ \E sel \in Selectors : StartDelete(2, sel)
  \/ \E c \in Callers : ColdStep(c)
  \/ \E c \in Callers : DeleteFind(c) \/ DeleteObjects(c) \/ DeleteMany(c)
  \/ \E j \in JobSlots : Dispatch(j)
  \/ \E j \in JobSlots, l \in BOOLEAN : PipelineStep(j, l)
  \/ \E j \in JobSlots, n \in AttemptCounts : HookRun(j, n)

SpecPipeline == InitPipeline /\ [][NextPipeline]_vars

\* ------------------------------------------------------- several images
\* Three originals in the bucket: the picture, one whose name differs from
\* it in the extension only, and one whose name is spelled like the key of
\* a rendition.
JpgId == <<"a", Dot, "j", "p", "g">>

KeyId == <<"a", "_", "_", "_", "2", "0", "x", "1", "0", Dot, "w", "e", "b", "p">>

KeyImageIds == {PicId, JpgId, KeyId}

\* the renditions requested: 20x10 webp of the first two
KeyQuads ==
  {[imageId |-> i, width |-> 20, height |-> 10, imageFormat |-> "webp"] :
     i \in {PicId, JpgId}}

KeySelectors ==
  {[imageId |-> i, width |-> 0, height |-> 0, imageFormat |-> "any"] :
     i \in {PicId, JpgId}}

InitKeys ==
  Start({getOriginalKey(i) : i \in KeyImageIds},
        [jobs |-> MaxJobs, stalls |-> 0, faults |-> 0, calls |-> MaxCalls - 1])

\* One client sends up to MaxCalls requests about the two pictures, one at
\* a time; the queue, the worker and the failed hook run concurrently.
NextKeys ==
  \/ \E q \in KeyQuads, f \in BOOLEAN : SeqResolve(1, q, f)
  \/ \E sel \in KeySelectors : SeqDelete(1, sel)
  \/ \E c \in Callers : Again(c)
  \/ \E c \in Callers : ResolverStep(c)
  \/ \E c \in Callers : DeleteFind(c) \/ DeleteObjects(c) \/ DeleteMany(c)
  \/ \E j \in JobSlots : Dispatch(j)
  \/ \E j \in JobSlots, l \in BOOLEAN : MissingStep(j, l)
  \/ \E j \in JobSlots, n \in AttemptCounts : HookRun(j, n)

SpecKeys == InitKeys /\ [][NextKeys]_vars

\* One cold-miss request, the queue, the worker and the failed hook; a
\* download may fail and a step that changes a store may time out, often
\* enough for one job to exhaust its attempts.
InitTimeout ==
  Start({getOriginalKey(PicId)},
        [jobs |-> MaxJobs, stalls |-> 0, faults |-> JobAttempts, calls |-> 0])

NextTimeout ==
  \/ \E q \in Quads : StartResolve(1, q, FALSE)
  \/ \E c \in Callers : ColdStep(c)
  \/ \E j \in JobSlots : Dispatch(j)
  \/ \E j \in JobSlots, l \in BOOLEAN : WorkerStep(j, l)
  \/ \E j \in JobSlots, l \in BOOLEAN, pc \in TimedSteps : StepTimesOut(j, l, pc)
  \/ \E j \in JobSlots, op \in TimedSteps : LateEffect(j, op)
  \/ \E j \in JobSlots, n \in AttemptCounts : HookRun(j, n)

SpecTimeout == InitTimeout /\ [][NextTimeout]_vars

\* Resolver requests one at a time, with and without forceResize, over
\* stores and a broker that may fail: the deletions of handleForceResize
\* and the enqueue may reject.
NextResolveFault ==
  \/ \E q \in Quads, f \in BOOLEAN : SeqResolve(1, q, f)
  \/ \E c \in Callers : Again(c)
  \/ \E c \in Callers : ResolverStep(c)
  \/ \E c \in Callers : ForceDeleteRecordFails(c)
  \/ \E c \in Callers, gone \in BOOLEAN : ForceDeleteObjectFails(c, gone)
  \/ \E c \in Callers : EnqueueFails(c)
  \/ \E j \in JobSlots : Dispatch(j)
  \/ \E j \in JobSlots, l \in BOOLEAN : WorkerStep(j, l)
  \/ \E j \in JobSlots, n \in AttemptCounts : HookRun(j, n)

SpecResolveFault == InitSeq /\ [][NextResolveFault]_vars

\* C1. The metadata store never holds two variant records with the same
\* (imageId, width, height, format), whatever the interleaving of
\* resolveVariant (with or without forceResize), deleteImage, job attempts
\* and failed-hook executions.
Uniqueness ==
  \A r1 \in records : \A r2 \in records : QuadOf(r1) = QuadOf(r2) => r1 = r2

\* an insert was rejected by the unique index and the record is in the store
UniquenessWitness ==
  /\ \E c \in Callers : rs[c].res = "conflict"
  /\ \E r \in records : QuadOf(r) \in Quads

\* C2. Concurrent cold misses on one quadruple (forceResize = false, the
\* original present): there is never more than one record or more than one
\* job added by the resolver; every insert is followed by one enqueue and a
\* call whose insert lost the race adds no job; when all calls have returned
\* there is exactly one record and exactly one resolver job, for that record.
ConcurrentAdmission ==
  /\ Cardinality(records) <= 1
  /\ Cardinality(ResolverJobs) <= 1
  /\ Cardinality(ResolverJobs) + Cardinality({c \in Callers : rs[c].pc = "enqueue"})
       = nextId - 1
  /\ (\A c \in Callers : rs[c].pc = "done") =>
       /\ Cardinality(records) = 1
       /\ Cardinality(ResolverJobs) = 1
       /\ \A j \in ResolverJobs : \A r \in records : jobs[j].recId = r.id

\* all calls have returned, one of them lost the insert race
ConcurrentAdmissionWitness ==
  /\ \A c \in Callers : rs[c].pc = "done"
  /\ \E c \in Callers : rs[c].res = "conflict"
  /\ Cardinality(ResolverJobs) = 1

\* C3. Every cold-miss request (no record found, original present) returns
\* (originalKey, servingOriginal = true), also when its insert hits the
\* duplicate-key error; none fails.
DuplicateKeyRecovery ==
  \A c \in Callers :
    (rs[c].pc = "done" /\ rs[c].cold) =>
      (rs[c].res = "original" /\ rs[c].key = getOriginalKey(PicId))

\* C4. Once a record is ready, no step changes its status while it exists.
ReadyIsTerminal ==
  [][\A r \in records : \A r2 \in records' :
       (r.status = "ready" /\ r2.id = r.id) => r2.status = "ready"]_vars

\* C5. The status of a record changes only by queued -> processing,
\* processing -> ready, processing -> failed and failed -> queued; in
\* particular never failed -> processing.
MonotonicStatus ==
  [][\A r \in records : \A r2 \in records' :
       (r2.id = r.id /\ r2.status # r.status) =>
         <<r.status, r2.status>> \in
           {<<"queued", "processing">>, <<"processing", "ready">>,
            <<"processing", "failed">>, <<"failed", "queued">>}]_vars

\* job attempts that have marked the record processing and not yet written
\* ready or started the failure annotation
Rendering(q) ==
  {a \in attempts : jobs[a.job].quad = q /\ a.pc \in {"render", "upload", "ready"}}

\* C6. At most one job attempt at a time is rendering a given quadruple.
AtMostOneRendering ==
  \A q \in Quads : Cardinality(Rendering(q)) <= 1

\* C7. When no call and no failed hook is in progress, every record in
\* status queued or processing has exactly one live job for its quadruple,
\* and that job references the record.
OneLiveJob ==
  ((\A c \in Callers : ~InCall(c)) /\ hooks = {}) =>
    \A r \in records :
      r.status \in {"queued", "processing"} =>
        LET live == {j \in LiveJobs : jobs[j].quad = QuadOf(r)} IN
          /\ Cardinality(live) = 1
          /\ \A j \in live : jobs[j].recId = r.id

\* C8. No record ever has requeueCount above MAX_REQUEUES.
BoundedRequeues ==
  \A r \in records : r.requeueCount <= MAX_REQUEUES

\* C9. When every render fails: at most 1 + MAX_REQUEUES jobs are ever added
\* for the record; whenever no hook is running the record's requeueCount is
\* the number of jobs the hook has added; and when everything has run to the
\* end the record is failed with failedReason set and requeueCount =
\* MAX_REQUEUES, after exactly 1 + MAX_REQUEUES jobs.
RetryExhaustion ==
  /\ Len(jobs) <= 1 + MAX_REQUEUES
  /\ hooks = {} => \A r \in records : r.requeueCount = Cardinality(HookJobs)
  /\ (Quiescent /\ jobs # <<>>) =>
       /\ Len(jobs) = 1 + MAX_REQUEUES
       /\ \A r \in records :
            /\ r.status = "failed"
            /\ r.failedReason # Null
            /\ r.requeueCount = MAX_REQUEUES

\* C10. A record does not stay queued or processing forever: in a state
\* where every call has returned and no job, job attempt or failed hook is
\* left to run (so that nothing will ever write the record again), no
\* record is queued or processing.
EventualCompletion ==
  (Quiescent /\ \A c \in Callers : rs[c].pc = "done") =>
    \A r \in records : r.status \notin {"queued", "processing"}

\* the jobs ever added that name record id
JobsOf(id) == {j \in JobIds : jobs[j].recId = id}

\* C11. For every record id, the jobs ever added that reference it number at
\* most 1 + MAX_REQUEUES, also when the record is deleted while one of its
\* jobs is live.
BoundedJobsPerRecord ==
  \A id \in 1..(nextId - 1) : Cardinality(JobsOf(id)) <= 1 + MAX_REQUEUES

\* C12. A job whose attempt found its record missing is not attempted again
\* and the failed hook adds no job for that record. (Under SpecMissing an
\* attempt fails only by finding the record missing.)
RecordMissingTerminal ==
  \A j \in JobIds :
    jobs[j].attemptsMade >= 1 =>
      /\ jobs[j].state \notin LiveStates
      /\ \A k \in HookJobs : jobs[k].recId # jobs[j].recId

\* C13. A getOrCreateVariant call without forceResize made while the record
\* of its quadruple is ready returns the record's variant key with
\* shouldStreamOriginal = false in its first step, and inserts no record,
\* adds no job and leaves the object store alone.
RoundTrip ==
  [][\A c \in Callers :
       (rs[c].op = "resolve" /\ rs[c].seen = "ready" /\ rs'[c] # rs[c]) =>
         /\ rs'[c].pc = "done"
         /\ rs'[c].res = "variant"
         /\ rs'[c].key = KeyOf(rs[c].quad)
         /\ records' = records
         /\ jobs' = jobs
         /\ objects' = objects]_vars

\* C14. When the lookup of a getOrCreateVariant call without forceResize
\* finds the record queued or processing, the call returns in that same step
\* with the record's original key and shouldStreamOriginal = true, and the
\* step changes neither the records nor the queue.
InFlightServesOriginal ==
  [][\A c \in Callers :
       ( /\ rs[c].op = "resolve"
         /\ rs[c].pc = "find"
         /\ StatusOf(rs[c].quad) \in {"queued", "processing"}
         /\ rs'[c] # rs[c] ) =>
         /\ rs'[c].pc = "done"
         /\ rs'[c].res = "original"
         /\ rs'[c].key = getOriginalKey(rs[c].quad.imageId)
         /\ records' = records
         /\ jobs' = jobs]_vars

\* a call that found the record in flight has returned the original
InFlightServesOriginalWitness ==
  \E c \in Callers :
    /\ rs[c].pc = "done"
    /\ ~rs[c].cold
    /\ rs[c].res = "original"
    /\ \E r \in records : r.status = "processing"

\* C15. A getOrCreateVariant call without forceResize whose lookup found a
\* failed record, the original being present, returns the original key with
\* shouldStreamOriginal = true and leaves exactly one record of the
\* quadruple, queued with fileSize 0, and one new job that names it.
FailedAdmission ==
  [][\A c \in Callers :
       ( /\ rs[c].op = "resolve"
         /\ ~rs[c].cold
         /\ rs[c].pc \in {"head", "create", "enqueue"}
         /\ getOriginalKey(rs[c].quad.imageId) \in objects
         /\ rs'[c].pc = "done" ) =>
         /\ rs'[c].res = "original"
         /\ rs'[c].key = getOriginalKey(rs[c].quad.imageId)
         /\ \E r \in records' :
              /\ \A x \in records' : QuadOf(x) = rs[c].quad => x = r
              /\ QuadOf(r) = rs[c].quad
              /\ r.status = "queued"
              /\ r.fileSize = 0
              /\ Len(jobs') = Len(jobs) + 1
              /\ jobs'[Len(jobs')].recId = r.id]_vars

\* C16. While the original is absent, no step of a getOrCreateVariant call
\* made when its quadruple had no record, and no step of a getOriginal call,
\* inserts a record or adds a job; the call never reaches the insert and
\* ends with the not-found error, which getImage answers with 404.
MissingOriginal ==
  [][\A c \in Callers :
       ( /\ \/ rs[c].op \in {"resolve", "force"} /\ rs[c].seen = "absent"
            \/ rs[c].op = "original"
         /\ getOriginalKey(rs[c].quad.imageId) \notin objects
         /\ rs'[c] # rs[c] ) =>
         /\ records' = records
         /\ jobs' = jobs
         /\ rs'[c].pc \notin {"create", "enqueue"}
         /\ rs'[c].pc = "done" =>
              (rs'[c].res = "notfound" /\ HttpStatus(rs'[c].res) = 404)]_vars

\* a cold miss ended with the not-found error, the store still empty
MissingOriginalWitness ==
  \E c \in Callers :
    /\ rs[c].pc = "done"
    /\ rs[c].cold
    /\ rs[c].res = "notfound"
    /\ HttpStatus(rs[c].res) = 404
    /\ getOriginalKey(PicId) \notin objects
    /\ records = {}
    /\ jobs = <<>>

\* C17. A forceResize call made while the record of its quadruple is ready,
\* the original being present, returns the original key with
\* shouldStreamOriginal = true; at its return the old variant object is gone,
\* the quadruple has exactly one record, the one the call inserted, queued
\* with fileSize 0, and the call has added exactly one job, for that record.
ForceDisplacesReady ==
  [][\A c \in Callers :
       ( /\ rs[c].op = "force"
         /\ rs[c].seen = "ready"
         /\ getOriginalKey(rs[c].quad.imageId) \in objects
         /\ rs'[c].pc = "done" ) =>
         /\ rs'[c].res = "original"
         /\ rs'[c].key = getOriginalKey(rs[c].quad.imageId)
         /\ KeyOf(rs[c].quad) \notin objects'
         /\ \E r \in records' :
              /\ \A x \in records' : QuadOf(x) = rs[c].quad => x = r
              /\ r = NewDoc(rs[c].found, rs[c].quad)
              /\ jobs' = Append(jobs, NewJob(rs[c].quad, r.id, "resolver"))]_vars

\* C18. A forceResize call does not end in its record deletion or its
\* object deletion: after either step, failed or not, the call goes on to
\* the next deletion step or to the lookup.
BestEffortForceDelete ==
  [][\A c \in Callers :
       (rs[c].pc \in {"fr_delrec", "fr_delobj"} /\ rs'[c] # rs[c]) =>
         rs'[c].pc \in {"fr_delobj", "find"}]_vars

\* C19. deleteImage deletes no record before its object-store batch delete
\* has succeeded: a step of the call changes the records only at the
\* deleteMany, which the call reaches only with the objects at its keys
\* gone; when the batch delete fails the call ends with that error and the
\* records are as they were.
DeleteOrdering ==
  [][\A c \in Callers :
       (rs[c].op = "delete" /\ rs'[c] # rs[c]) =>
         /\ rs[c].pc \in {"di_find", "di_delobjs"} => records' = records
         /\ rs'[c].pc = "di_delmany" => rs[c].keys \cap objects' = {}
         /\ rs'[c].res = "s3batcherror" =>
              (rs[c].pc = "di_delobjs" /\ rs'[c].pc = "done")]_vars

\* a batch delete failed with nothing removed: the call has ended with the
\* error, the ready record and its object are still there
DeleteOrderingWitness ==
  \E c \in Callers :
    /\ rs[c].pc = "done"
    /\ rs[c].res = "s3batcherror"
    /\ \E r \in records : r.status = "ready" /\ r.s3Key \in objects

\* C20. deleteImage removes exactly the records that match its selector
\* and the objects at their variant keys, and leaves the other records
\* unchanged; it fails with the not-found error exactly when no record
\* matches, and then deletes nothing.
DeleteFrame ==
  [][\A c \in Callers :
       (rs[c].op = "delete" /\ rs'[c] # rs[c]) =>
         LET matching == {r \in records : Matches(r, rs[c].quad)} IN
         /\ \A r \in records \ matching : r \in records'
         /\ rs'[c].res = "deleted" =>
              /\ records' = records \ matching
              /\ \A r \in matching : r.s3Key \notin objects'
         /\ rs'[c].res = "nomatch" =>
              (matching = {} /\ records' = records /\ objects' = objects)
         /\ (rs[c].pc = "di_find" /\ matching = {}) => rs'[c].res = "nomatch"]_vars

\* C21. A request without width and height whose original exists ends with
\* the original key and is reported as serving the original, not as serving
\* a ready rendition.
NoDimensionRequest ==
  [][\A c \in Callers :
       ( /\ rs[c].op = "original"
         /\ getOriginalKey(rs[c].quad.imageId) \in objects
         /\ rs'[c] # rs[c] ) =>
         /\ rs'[c].pc = "done"
         /\ rs'[c].key = getOriginalKey(rs[c].quad.imageId)
         /\ HttpStatus(rs'[c].res) = 302
         /\ isProcessing(rs'[c].res)
         /\ RedirectHeaders(rs'[c].res, rs'[c].key).XImageStatus = "processing"]_vars

ForbiddenPrefix ==
  [][\A c \in Callers : \A path \in Paths : \A query \in Queries :
       ( /\ \/ path = <<"/", "r">>
            \/ startsWith(path, <<"/", "r", "/">>)
         /\ rs[c].pc = "new"
         /\ GetImage(c, path, query) ) =>
         /\ rs'[c].pc = "done"
         /\ HttpStatus(rs'[c].res) = 403
         /\ UNCHANGED <<records, objects, jobs>>]_vars

\* C23 as amended. A GET whose query passes validation and whose path is the
\* configured prefix or begins with that prefix followed by '/' is answered
\* 403, and one whose query fails validation is answered 400; either is
\* answered in a single step that reads and writes no record, touches no
\* object and adds no job.
ForbiddenPrefixValidQuery ==
  [][\A c \in Callers : \A path \in Paths : \A query \in Queries :
       ( /\ \/ path = <<"/", "r">>
            \/ startsWith(path, <<"/", "r", "/">>)
         /\ rs[c].pc = "new"
         /\ GetImage(c, path, query) ) =>
         /\ rs'[c].pc = "done"
         /\ HttpStatus(rs'[c].res) = (IF ValidQuery(query) THEN 403 ELSE 400)
         /\ UNCHANGED <<records, objects, jobs>>]_vars

\* a request has been refused with 403 while the store held a record
ForbiddenPrefixWitness ==
  \E c \in Callers :
    /\ rs[c].pc = "done"
    /\ rs[c].res = "forbidden"
    /\ HttpStatus(rs[c].res) = 403
    /\ records # {}

\* C24. A GET with format=jpg is handled as one with format=jpeg: the
\* service call it starts is about the quadruple (imageId, width, height,
\* jpeg), and no step of a call ends it with an error that a jpeg request
\* would not get, the rejection of the record by the schema.
FormatAlias ==
  [][\A c \in Callers :
       /\ \A path \in Paths : \A query \in Queries :
            ( /\ query.format = "jpg"
              /\ rs[c].pc = "new"
              /\ GetImage(c, path, query) ) =>
              GetImage(c, path, [query EXCEPT !.format = "jpeg"])
       /\ rs'[c].res # "validation"]_vars

\* C25. The worker process exits only at the end of a shutdown sequence;
\* when the sequence of a SIGINT or SIGTERM ends without an error the exit
\* status is 0, and when the sequence of an uncaught exception ends the
\* exit status is not 0.
WorkerExitStatus ==
  [][(proc.exit = NoExit /\ proc'.exit # NoExit) =>
       /\ \E sq \in proc.seqs : sq.signal = proc'.exit.signal
       /\ ( /\ proc'.exit.signal \in Signals
            /\ Shutdown(proc'.exit.signal, "closeMongo") \in proc.seqs
            /\ MongoClosed(proc'.exit.signal) ) => proc'.exit.code = 0
       /\ proc'.exit.signal = "uncaughtException" => proc'.exit.code # 0]_vars

\* C26. An uncaught exception and an unhandled promise rejection in the
\* worker process each start the graceful shutdown sequence: the worker
\* stops pulling jobs and a call of gracefulShutdown is under way.
ShutdownTriggers ==
  [][\A e \in {"uncaughtException", "unhandledRejection"} :
       (e \notin proc.events /\ e \in proc'.events) =>
         /\ ~proc'.pulling
         /\ \E sq \in proc'.seqs : sq.signal = e]_vars

\* C27. An execution of processImageVariant that has caught an error makes
\* one update of its record to status failed, failedReason the message of
\* that error and failedAt now, and whether or not the update took effect
\* it then throws that same error to the queue: the attempt is counted, the
\* failed listener gets the error, and the job is never completed by it.
FailureAnnotation ==
  [][\A a \in attempts :
       (a.pc \in {"catch", "throw"} /\ a \notin attempts') =>
         IF a.pc = "catch"
         THEN /\ [a EXCEPT !.pc = "throw"] \in attempts'
              /\ \/ records' = records
                 \/ records' =
                      {IF r.id = jobs[a.job].recId
                       THEN [r EXCEPT !.status = "failed", !.failedReason = a.err,
                                      !.failedAt = "now"]
                       ELSE r : r \in records}
         ELSE /\ attempts' = attempts \ {a}
              /\ jobs'[a.job].state \in {"waiting", "failed"}
              /\ jobs'[a.job].attemptsMade = jobs[a.job].attemptsMade + 1
              /\ \E h \in hooks' \ hooks : h.job = a.job /\ h.err = a.err]_vars

\* an upload failed, the update to failed did not take effect, and the
\* error has still reached the queue: the attempt is counted and the failed
\* listener holds the upload error while the record is still processing
FailureAnnotationWitness ==
  \E j \in JobIds :
    /\ jobs[j].attemptsMade = 1
    /\ jobs[j].state = "waiting"
    /\ \E h \in hooks : h.job = j /\ h.pc = "annotate" /\ h.err = UploadFailed
    /\ \E r \in records : r.id = jobs[j].recId /\ r.status = "processing"

\* C28. Within one execution of processImageVariant the steps complete in
\* the order existence check, mark processing, download, render, upload,
\* mark ready, none skipped; the execution writes status ready only with
\* its own upload done, and it returns success only with every step done
\* and only when the ready write found the record.
PipelineOrder ==
  [][/\ \A a \in attempts' :
          /\ \E n \in 0..6 :
               a.timings = SubSeq(<<"mongoCheck", "mongoUpdate1", "s3Download",
                                    "sharpProcessing", "s3Upload", "mongoUpdate2">>, 1, n)
          /\ a.pc = "return" => (Len(a.timings) = 6 /\ a.err = Null)
     /\ \A r \in records : \A r2 \in records' :
          (r2.id = r.id /\ r.status # "ready" /\ r2.status = "ready") =>
            \E a \in attempts \ attempts' :
              /\ jobs[a.job].recId = r.id
              /\ a.pc = "ready"
              /\ a.timings[Len(a.timings)] = "s3Upload"
              /\ [a EXCEPT !.pc = "return", !.timings = @ \o <<"mongoUpdate2">>]
                   \in attempts'
     /\ \A a \in attempts' \ attempts :
          a.pc = "return" =>
            \E r2 \in records' : r2.id = jobs[a.job].recId /\ r2.status = "ready"]_vars

\* an execution has run every step and is about to report success, its
\* record ready and its object uploaded
PipelineOrderWitness ==
  \E a \in attempts :
    /\ a.pc = "return"
    /\ Len(a.timings) = 6
    /\ \E r \in records : r.id = jobs[a.job].recId /\ r.status = "ready"
                            /\ r.s3Key \in objects

\* C29. The failed listener of a non-final failure (attemptsMade <
\* attempts) ends after its annotation: it adds no job and changes no
\* requeueCount. The listener of a final failure that reads its record with
\* requeueCount < MAX_REQUEUES first adds one new waiting job with the
\* payload of the failed one, leaving the records alone, and then in one
\* update sets the record queued, clears failedReason and failedAt and
\* adds exactly 1 to requeueCount, leaving the queue alone.
RequeueStep ==
  [][\A h \in hooks \ hooks' :
       LET j == h.job
           rec == jobs[j].recId
       IN CASE h.pc = "annotate" ->
                 /\ jobs' = jobs
                 /\ \A r \in records : \A r2 \in records' :
                      r2.id = r.id => r2.requeueCount = r.requeueCount
                 /\ IF h.attemptsMade < JobAttempts
                    THEN hooks' = hooks \ {h}
                    ELSE hooks' = (hooks \ {h}) \cup {[h EXCEPT !.pc = "read"]}
            [] h.pc = "read" ->
                 /\ jobs' = jobs
                 /\ records' = records
                 /\ (\E r \in records : r.id = rec /\ r.requeueCount < MAX_REQUEUES)
                      => hooks' = (hooks \ {h}) \cup {[h EXCEPT !.pc = "add"]}
            [] h.pc = "add" ->
                 /\ jobs' = Append(jobs, [jobs[j] EXCEPT !.state = "waiting",
                                            !.attemptsMade = 0, !.stalled = 0,
                                            !.by = "hook"])
                 /\ records' = records
                 /\ hooks' = (hooks \ {h}) \cup {[h EXCEPT !.pc = "update"]}
            [] h.pc = "update" ->
                 /\ jobs' = jobs
                 /\ hooks' = hooks \ {h}
                 /\ records' =
                      {IF r.id = rec
                       THEN [r EXCEPT !.status = "queued", !.failedReason = Null,
                                      !.failedAt = Null,
                                      !.requeueCount = r.requeueCount + 1]
                       ELSE r : r \in records}]_vars

\* a final failure has been requeued once: the hook's job is waiting and the
\* record is queued again with requeueCount 1 and no failure annotation
RequeueStepWitness ==
  /\ hooks = {}
  /\ Len(jobs) = 2
  /\ jobs[1].state = "failed" /\ jobs[1].attemptsMade = JobAttempts
  /\ jobs[2].by = "hook" /\ jobs[2].state = "waiting"
  /\ \E r \in records :
       /\ r.id = jobs[2].recId
       /\ r.status = "queued"
       /\ r.requeueCount = 1
       /\ r.failedReason = Null

\* C30. Every record is inserted with fileSize 0, and the fileSize of a
\* record changes only in the mark-ready update of a job attempt for that
\* record, which sets status ready with it; so a record that has never been
\* set to ready has fileSize 0.
FileSizeZeroUntilReady ==
  [][/\ \A r2 \in records' :
          (\A r \in records : r.id # r2.id) => r2.fileSize = 0
     /\ \A r \in records : \A r2 \in records' :
          (r2.id = r.id /\ r2.fileSize # r.fileSize) =>
            /\ r2.status = "ready"
            /\ r2.fileSize = RenderedSize
            /\ \E a \in attempts \ attempts' :
                 a.pc = "ready" /\ jobs[a.job].recId = r.id
     /\ \A r \in records : \A r2 \in records' :
          (r2.id = r.id /\ r.status # "ready" /\ r.fileSize = 0 /\ r2.status # "ready")
            => r2.fileSize = 0]_vars

\* the job of the first record has completed, so that record was set
\* ready with its size, and a record inserted after it is waiting with
\* fileSize 0
FileSizeZeroUntilReadyWitness ==
  \E r \in records :
    /\ r.id > 1
    /\ r.status \in {"queued", "processing"}
    /\ r.fileSize = 0
    /\ \E j \in JobIds : jobs[j].recId = 1 /\ jobs[j].state = "completed"

\* C31. No worker step, failure annotation or requeue update changes a
\* record's variantKey, originalKey, imageId, width, height or format, and
\* every record has the variantKey derived from its own imageId, width,
\* height and format and the originalKey equal to its imageId.
IdentityFrozen ==
  [][/\ \A r \in records : \A r2 \in records' :
          r2.id = r.id =>
            /\ QuadOf(r2) = QuadOf(r)
            /\ r2.s3Key = r.s3Key
            /\ r2.originalS3Key = r.originalS3Key
     /\ \A r2 \in records' :
          /\ r2.s3Key = getVariantKey(r2.imageId, r2.width, r2.height, r2.imageFormat)
          /\ r2.originalS3Key = r2.imageId]_vars

\* a record that was marked processing, annotated failed, requeued and then
\* rendered still has the key of its quadruple
IdentityFrozenWitness ==
  \E r \in records :
    /\ r.status = "ready"
    /\ r.requeueCount = 1
    /\ r.imageId = <<"a", ".", "p", "n", "g">>
    /\ r.s3Key = <<"a", "_", "_", "_", "2", "0", "x", "1", "0", ".", "w", "e", "b", "p">>
    /\ r.originalS3Key = <<"a", ".", "p", "n", "g">>

VariantKeysDistinct ==
  [][/\ \A r1 \in records' : \A r2 \in records' :
          QuadOf(r1) # QuadOf(r2) =>
            /\ getVariantKey(r1.imageId, r1.width, r1.height, r1.imageFormat)
                 # getVariantKey(r2.imageId, r2.width, r2.height, r2.imageFormat)
            /\ r1.s3Key # r2.s3Key
     /\ \A c \in Callers : \A r \in records :
          ( /\ rs'[c] # rs[c]
            /\ rs[c].op \in {"delete", "force"}
            /\ ~Matches(r, rs[c].quad)
            /\ r.s3Key \in objects ) => r.s3Key \in objects']_vars

\* the keys under which the originals of the bucket are stored
OriginalKeys == {getOriginalKey(i) : i \in KeyImageIds}

\* C34. No step deletes or overwrites the object of an original whose
\* imageId passes validation: the object stays in the store, and no job
\* attempt uploads to its key.
OriginalsKept ==
  [][\A k \in OriginalKeys :
       (ValidImageId(k) /\ k \in objects) =>
         /\ k \in objects'
         /\ ~ \E a \in attempts \ attempts' :
                /\ a.pc = "upload"
                /\ jobs[a.job].variantS3Key = k
                /\ [a EXCEPT !.pc = "ready", !.timings = @ \o <<"s3Upload">>]
                     \in attempts']_vars

\* C35. In every reachable state a record with status ready has an object
\* at its variantKey, also while deleteImage and forceResize calls run.
ReadyHasObject ==
  \A r \in records : r.status = "ready" => r.s3Key \in objects

\* the job added last for record id
LastJobOf(id) == CHOOSE j \in JobsOf(id) : \A k \in JobsOf(id) : k <= j

\* C36. The failed hook's write of status queued is applied before the job
\* it has just added writes processing or ready: no record is queued while
\* the last job added for it has completed.
RequeueBeforeJob ==
  \A r \in records :
    (JobsOf(r.id) # {} /\ jobs[LastJobOf(r.id)].state = "completed")
      => r.status # "queued"

\* C37. An execution whose step timed out runs no later pipeline step, and
\* the operation the step gave up waiting for has no effect afterwards: it
\* changes neither the records nor the objects.
NoLateEffect ==
  [][/\ \A a \in attempts' : a.err # Null => a.pc \in {"catch", "throw"}
     /\ \A x \in late \ late' : records' = records /\ objects' = objects]_vars

\* the outcomes of getOrCreateVariant that are errors
ResolveErrors == {"notfound", "error", "s3error", "conflict", "validation"}

\* the call of c has changed the records or the objects: it has deleted the
\* record it was called to replace, or it has inserted its record
Wrote(c) ==
  \/ rs[c].pc \in {"fr_delobj", "enqueue"}
  \/ rs[c].op = "force" /\ rs[c].seen # "absent"
       /\ rs[c].pc \in {"find", "head", "create"}

\* C38. A getOrCreateVariant call that ends with an error, with or without
\* forceResize, has changed no record, no object and no job: it ends before
\* any of its writes, and its last step writes nothing.
FailedResolveFrame ==
  [][\A c \in Callers :
       ( /\ rs[c].op \in {"resolve", "force"}
         /\ rs[c].pc # "done"
         /\ rs'[c].pc = "done"
         /\ rs'[c].res \in ResolveErrors ) =>
         /\ ~Wrote(c)
         /\ records' = records
         /\ objects' = objects
         /\ jobs' = jobs]_vars

\* C39. No job outlives the deletion of its variant: in every state with no
\* live job, every object that is not an original is the object of an
\* existing record.
NoOrphanRendition ==
  LiveJobs = {} =>
    \A k \in objects \ {getOriginalKey(i) : i \in ImageIds} :
      \E r \in records : r.s3Key = k

\* C40. A record with status ready has failedReason and failedAt null, and a
\* record with status failed has both set, also when an attempt succeeds
\* after an earlier attempt of the same job failed.
FailureFieldsMatchStatus ==
  \A r \in records :
    /\ r.status = "ready" => (r.failedReason = Null /\ r.failedAt = Null)
    /\ r.status = "failed" => (r.failedReason # Null /\ r.failedAt # Null)

============================================================================
